---- MODULE Spec2Model ----
(***************************************************************************)
(* Model of src/papersearch/server.py: the tool handler handle_call_tool,  *)
(* the search routine search_papers (identifier lookup, query building,    *)
(* recency filter, relevance scoring, sort, truncation) and format_papers. *)
(*                                                                         *)
(* Representation of Python values:                                        *)
(*   str    [type |-> "str",  val |-> sequence of one-character strings]   *)
(*   list   [type |-> "list", val |-> sequence of str values]              *)
(*   None   [type |-> "NoneType"]                                          *)
(*   int    an integer                                                     *)
(*   float  a fraction [num, den] (relevance scores are quotients of two   *)
(*          small integers; float division is correctly rounded, so order  *)
(*          and equality of the floats are those of the fractions)         *)
(*   dict   a function from a set of key strings                           *)
(* A query expression is a sequence of fragments: the literals of the      *)
(* source as whole fragments, the caller's strings character by character. *)
(* Time is counted in ticks, TicksPerDay ticks to a calendar day.          *)
(***************************************************************************)
EXTENDS Integers, Sequences, FiniteSets, TLC

VARIABLES pc, name, arguments, now, feedOK, feed, call, response

vars == <<pc, name, arguments, now, feedOK, feed, call, response>>

----------------------------------------------------------------------------
(* Python values *)

None == [type |-> "NoneType"]

Str(s) == [type |-> "str", val |-> s]

List(l) == [type |-> "list", val |-> l]

\* Python truthiness of a str, a list or None: `if query_type`, `if field`,
\* `if keywords`, `if not keywords`
Truthy(v) == v.type # "NoneType" /\ v.val # <<>>

Min(a, b) == IF a <= b THEN a ELSE b

Max(a, b) == IF a >= b THEN a ELSE b

----------------------------------------------------------------------------
(* str.lower() and the `in` operator on strings *)

UpperLetters ==
    <<"A","B","C","D","E","F","G","H","I","J","K","L","M",
      "N","O","P","Q","R","S","T","U","V","W","X","Y","Z">>

LowerLetters ==
    <<"a","b","c","d","e","f","g","h","i","j","k","l","m",
      "n","o","p","q","r","s","t","u","v","w","x","y","z">>

\* the lower-case letter of each upper-case letter
ToLower ==
    [c \in {UpperLetters[i] : i \in 1..Len(UpperLetters)} |->
        LowerLetters[CHOOSE i \in 1..Len(UpperLetters) : UpperLetters[i] = c]]

LowerChar(c) == IF c \in DOMAIN ToLower THEN ToLower[c] ELSE c

Lower(s) == [i \in 1..Len(s) |-> LowerChar(s[i])]

\* needle in hay
Contains(needle, hay) ==
    \E i \in 0..(Len(hay) - Len(needle)) :
        SubSeq(hay, i + 1, i + Len(needle)) = needle

----------------------------------------------------------------------------
(* re.match(r'\d{4}\.\d{4,5}(?:v\d+)?', s): the pattern is tried at the    *)
(* start of s; a position is the index of the next character to consume.   *)

Digits == {"0","1","2","3","4","5","6","7","8","9"}

\* \d{lo,hi} from each position of P
AfterDigits(s, P, lo, hi) ==
    { p + k : <<p, k>> \in
        { pk \in P \X (lo..hi) :
            /\ pk[1] + pk[2] - 1 <= Len(s)
            /\ \A i \in pk[1]..(pk[1] + pk[2] - 1) : s[i] \in Digits } }

\* a literal character from each position of P
AfterChar(s, P, c) == { p + 1 : p \in { q \in P : q <= Len(s) /\ s[q] = c } }

\* (?: ... )? : skip the group or take it
AfterVersion(s, P) == P \cup AfterDigits(s, AfterChar(s, P, "v"), 1, Len(s))

\* the positions at which a match of the whole pattern, started at 1, can end
MatchEnds(s) ==
    AfterVersion(s, AfterDigits(s, AfterChar(s, AfterDigits(s, {1}, 4, 4), "."), 4, 5))

\* re.match returns a match object (truthy) iff some match exists
re_match(s) == MatchEnds(s) # {}

\* line 54: query_type and re.match(arxiv_id_pattern, query_type)
IsArxivId(query_type) == Truthy(query_type) /\ re_match(query_type.val)

----------------------------------------------------------------------------
(* calculate_relevance_score *)

title_weight == 2

summary_weight == 1

\* the for loop of lines 41-46 from keyword i on; acc = [score, total_weight]
RECURSIVE ScoreLoop(_, _, _, _)
ScoreLoop(paper, kws, i, acc) ==
    IF i > Len(kws) THEN acc
    ELSE LET k  == Lower(kws[i].val)
             s1 == IF Contains(k, Lower(paper.title))
                   THEN acc.score + title_weight ELSE acc.score
             s2 == IF Contains(k, Lower(paper.summary))
                   THEN s1 + summary_weight ELSE s1
         IN ScoreLoop(paper, kws, i + 1,
                [score |-> s2,
                 total_weight |-> acc.total_weight + (title_weight + summary_weight)])

\* faulty variant: the early return for an empty keywords list (lines 31-32) is lost
calculate_relevance_score_NoEarlyReturn(paper, keywords) ==
    LET kws == IF keywords.type = "list" THEN keywords.val ELSE <<>>
        acc == ScoreLoop(paper, kws, 1, [score |-> 0, total_weight |-> 0])
    IN IF acc.total_weight > 0
       THEN [num |-> acc.score, den |-> acc.total_weight]
       ELSE [num |-> 0, den |-> 1]

calculate_relevance_score(paper, keywords) ==
    IF ~Truthy(keywords) THEN [num |-> 1, den |-> 1]
    ELSE LET acc == ScoreLoop(paper, keywords.val, 1, [score |-> 0, total_weight |-> 0])
         IN IF acc.total_weight > 0
            THEN [num |-> acc.score, den |-> acc.total_weight]
            ELSE [num |-> 0, den |-> 1]

\* comparison of two scores
ScoreLess(a, b) == a.num * b.den < b.num * a.den

ScoreEq(a, b) == a.num * b.den = b.num * a.den

----------------------------------------------------------------------------
(* Papers as the retrieval capability yields them, and the dicts built     *)
(* from them.  authors, categories carry no decision and are left out;     *)
(* url identifies the paper.                                               *)

TicksPerDay == 2

\* paper.published.strftime('%Y-%m-%d'): the calendar day of a timestamp.
\* The dates are compared as 'YYYY-MM-DD' strings, which order as the days do.
StrfDate(t) == t \div TicksPerDay

\* lines 57-65 and 107-117
PaperDict(paper, relevance_score) ==
    [title |-> paper.title,
     summary |-> paper.summary,
     url |-> paper.url,
     published_date |-> StrfDate(paper.published),
     relevance_score |-> relevance_score]

----------------------------------------------------------------------------
(* Identifier lookup, lines 55-67 *)

\* faulty variant: the lookup result goes through the recency filter and the
\* truncation of the search path
LookupResultFiltered(results, days, max_results, keywords, t) ==
    IF results = <<>> \/ Head(results).published < t - days * TicksPerDay
                      \/ max_results < 1
    THEN <<>>
    ELSE << PaperDict(Head(results), [num |-> 1, den |-> 1]) >>

\* next(client.results(...)) and the one-record list; StopIteration -> []
LookupResult(results, days, max_results, keywords, t) ==
    IF results = <<>> THEN <<>>
    ELSE << PaperDict(Head(results), [num |-> 1, den |-> 1]) >>

----------------------------------------------------------------------------
(* Query building, lines 69-93 *)

RECURSIVE Join(_, _)
\* sep.join(parts)
Join(sep, parts) ==
    IF parts = <<>> THEN <<>>
    ELSE IF Len(parts) = 1 THEN parts[1]
    ELSE parts[1] \o <<sep>> \o Join(sep, Tail(parts))

MoeInference == <<"m","o","e"," ","i","n","f","e","r","e","n","c","e">>

MoeExpression ==
    <<"(ti:\"mixture of experts\" OR ti:moe) AND (ti:deployment OR abs:deployment OR ti:inference OR abs:inference OR ti:efficient OR abs:efficient)">>

\* lines 73-76
TopicParts(query_type) ==
    IF query_type.type = "str" /\ query_type.val = MoeInference THEN <<MoeExpression>>
    ELSE IF Truthy(query_type) THEN <<query_type.val>>
    ELSE <<>>

\* lines 79-81
FieldParts(field) ==
    IF Truthy(field) THEN << <<"(cat:\"">> \o field.val \o <<"\")">> >> ELSE <<>>

\* line 87
keyword_condition(keyword) ==
    <<"(ti:\"">> \o keyword.val \o <<"\" OR abs:\"">> \o keyword.val \o <<"\")">>

\* lines 84-90
KeywordParts(keywords) ==
    IF Truthy(keywords)
    THEN << <<"(">>
            \o Join(" OR ", [i \in 1..Len(keywords.val) |-> keyword_condition(keywords.val[i])])
            \o <<")">> >>
    ELSE <<>>

\* faulty variant: the keyword clause is appended before the field clause
query_parts_KeywordsFirst(query_type, field, keywords) ==
    TopicParts(query_type) \o KeywordParts(keywords) \o FieldParts(field)

query_parts(query_type, field, keywords) ==
    TopicParts(query_type) \o FieldParts(field) \o KeywordParts(keywords)

\* line 93
final_query(query_type, field, keywords) ==
    LET parts == query_parts(query_type, field, keywords)
    IN IF parts # <<>> THEN Join(" AND ", parts) ELSE <<"*:*">>

----------------------------------------------------------------------------
(* Recency filter and scoring, lines 101-118 *)

\* line 102
cutoff_date(t, days) == t - days * TicksPerDay

\* faulty variant: the keyword bypass is lost, the cutoff always applies
RetainedCutoffOnly(paper, keywords, cutoff) == paper.published >= cutoff

\* line 106 (keywords is a list here: len(None) raises before this is decided)
Retained(paper, keywords, cutoff) ==
    Len(keywords.val) > 0 \/ paper.published >= cutoff

RECURSIVE CollectPapers(_, _, _)
\* the loop of lines 104-118 over what the retrieval capability yields
CollectPapers(results, keywords, cutoff) ==
    IF results = <<>> THEN <<>>
    ELSE LET paper == Head(results)
             rest  == CollectPapers(Tail(results), keywords, cutoff)
         IN IF Retained(paper, keywords, cutoff)
            THEN <<PaperDict(paper, calculate_relevance_score(paper, keywords))>> \o rest
            ELSE rest

----------------------------------------------------------------------------
(* Sort, line 121: key (-relevance_score, published_date), reverse=True *)

\* faulty variant: ties in the score are ordered by date ascending
KeyLessDateAscending(a, b) ==
    \/ ScoreLess(b.relevance_score, a.relevance_score)
    \/ /\ ScoreEq(a.relevance_score, b.relevance_score)
       /\ a.published_date > b.published_date

\* key(a) < key(b) for the tuples (-relevance_score, published_date)
KeyLess(a, b) ==
    \/ ScoreLess(b.relevance_score, a.relevance_score)
    \/ /\ ScoreEq(a.relevance_score, b.relevance_score)
       /\ a.published_date < b.published_date

\* x placed into s, which is in descending key order: after every element
\* whose key is not less than x's (list.sort is stable, also with reverse=True)
InsertDescending(s, x) ==
    LET n == Cardinality({i \in 1..Len(s) : ~KeyLess(s[i], x)})
    IN SubSeq(s, 1, n) \o <<x>> \o SubSeq(s, n + 1, Len(s))

RECURSIVE SortFrom(_, _)
SortFrom(done, todo) ==
    IF todo = <<>> THEN done
    ELSE SortFrom(InsertDescending(done, Head(todo)), Tail(todo))

\* papers.sort(key=..., reverse=True)
SortPapers(papers) == SortFrom(<<>>, papers)

\* faulty variant: one entry too many is kept
SliceOffByOne(papers, max_results) ==
    SubSeq(papers, 1, Min(max_results + 1, Len(papers)))

\* line 124: papers[:max_results]
Slice(papers, max_results) ==
    IF max_results >= 0
    THEN SubSeq(papers, 1, Min(max_results, Len(papers)))
    ELSE SubSeq(papers, 1, Max(Len(papers) + max_results, 0))

----------------------------------------------------------------------------
(* search_papers as a whole.  ok: the retrieval capability answers; results:*)
(* the papers it yields.  The outcome records the locals of the call.      *)

Raised(mode, exc, query, cap) ==
    [status |-> "raised", exc |-> exc, mode |-> mode, query |-> query,
     cap |-> cap, papers |-> <<>>, sorted |-> <<>>, result |-> <<>>]

Returned(mode, query, cap, papers, sorted, result) ==
    [status |-> "returned", exc |-> "", mode |-> mode, query |-> query,
     cap |-> cap, papers |-> papers, sorted |-> sorted, result |-> result]

search_papers(days, query_type, max_results, field, keywords, t, ok, results) ==
    IF IsArxivId(query_type)
    THEN \* lines 55-67
         IF ~ok THEN Raised("lookup", "RetrievalError", <<>>, 0)
         ELSE Returned("lookup", <<>>, 0, <<>>, <<>>,
                       LookupResult(results, days, max_results, keywords, t))
    ELSE \* lines 69-124
         LET query == final_query(query_type, field, keywords)
             cap   == Max(100, max_results * 2)
         IN IF ~ok THEN Raised("search", "RetrievalError", query, cap)
            ELSE IF results # <<>> /\ keywords.type = "NoneType"
            THEN \* line 106, len(None)
                 Raised("search", "TypeError", query, cap)
            ELSE LET papers == CollectPapers(results, keywords, cutoff_date(t, days))
                     sorted == SortPapers(papers)
                 IN Returned("search", query, cap, papers, sorted,
                             Slice(sorted, max_results))

----------------------------------------------------------------------------
(* format_papers, lines 126-153, with show_score = False *)

\* the fixed sentence of line 135 and the prefix of line 224, in translation
\* (the literals of the source are not ASCII)
NoPapersFound == "no papers found in the given time range"

ErrorMarker == "error: "

format_papers(papers) ==
    IF papers = <<>> THEN [kind |-> "sentinel", text |-> NoPapersFound]
    ELSE [kind |-> "papers",
          blocks |-> [i \in 1..Len(papers) |->
                        [index |-> i,
                         title |-> papers[i].title,
                         published_date |-> papers[i].published_date,
                         url |-> papers[i].url,
                         summary |-> papers[i].summary]]]

----------------------------------------------------------------------------
(* handle_call_tool, lines 197-224 *)

DefaultDays == 7

DefaultMaxResults == 100

DefaultQueryType == Str(<<"m","o","e">>)

\* dict.get(key, default)
Get(d, key, default) == IF key \in DOMAIN d THEN d[key] ELSE default

\* lines 203-204: `if not arguments: arguments = {}` (None or the empty dict)
EffectiveArguments(args) == IF "type" \in DOMAIN args THEN <<>> ELSE args

\* the parameters search_papers runs with: lines 213-217, and equally the
\* defaults of the signature (line 15) when it is called with these keywords
Param(args) ==
    [days        |-> Get(args, "days", DefaultDays),
     query_type  |-> Get(args, "query_type", DefaultQueryType),
     max_results |-> Get(args, "max_results", DefaultMaxResults),
     field       |-> Get(args, "field", None),
     keywords    |-> Get(args, "keywords", None)]

RunSearch(args, t, ok, results) ==
    LET p == Param(EffectiveArguments(args))
    IN search_papers(p.days, p.query_type, p.max_results, p.field, p.keywords,
                     t, ok, results)

NotCalled == [status |-> "not called"]

NoResponse == [outcome |-> "none"]

TextResponse(text) == [outcome |-> "return", content |-> <<[type |-> "text", text |-> text]>>]

\* lines 223-224
ErrorText(exc) == [kind |-> "error", marker |-> ErrorMarker, message |-> exc]

\* faulty variant: the except clause is missing, errors of the call propagate
ToolResponseUncaught(tool, outcome) ==
    IF tool # "papersearch" THEN [outcome |-> "raise", exc |-> "ValueError"]
    ELSE IF outcome.status = "raised" THEN [outcome |-> "raise", exc |-> outcome.exc]
    ELSE TextResponse(format_papers(outcome.result))

\* lines 206-224: what the handler answers, given the outcome of search_papers
ToolResponse(tool, outcome) ==
    IF tool # "papersearch" THEN [outcome |-> "raise", exc |-> "ValueError"]
    ELSE IF outcome.status = "raised" THEN TextResponse(ErrorText(outcome.exc))
    ELSE TextResponse(format_papers(outcome.result))

----------------------------------------------------------------------------
(* The inputs: requests, and what the retrieval capability yields *)

MaxFeed == 3

MaxKeywords == 2

MaxResultsArg == 2

Now == 20 * TicksPerDay

sMoE == <<"M","o","E">>

sInference == <<"I","n","f","e","r","e","n","c","e">>

sMoeInference == <<"m","o","e"," ","i","n","f","e","r","e","n","c","e">>

sMoeLower == <<"m","o","e">>

sInferenceLower == <<"i","n","f","e","r","e","n","c","e">>

sSurvey == <<"s","u","r","v","e","y">>

sField == <<"c","s",".","A","I">>

\* four papers: the scores 3/6 and 4/6 for ["moe","inference"], ties in the
\* score with equal and with different dates, one paper outside every window
Catalog ==
    { [url |-> "A", title |-> sMoE, summary |-> sInference,
       published |-> Now - 1],
      [url |-> "B", title |-> sMoeInference, summary |-> sSurvey,
       published |-> Now - 14 * TicksPerDay],
      [url |-> "C", title |-> sMoE, summary |-> sInference,
       published |-> Now - TicksPerDay],
      [url |-> "D", title |-> sMoE, summary |-> sInference,
       published |-> Now - 2 * TicksPerDay] }

\* what the retrieval capability can yield: up to n papers, none twice
Feeds(n) ==
    { f \in UNION { [1..k -> Catalog] : k \in 0..n } :
        \A i, j \in DOMAIN f : f[i] = f[j] => i = j }

KeywordPool == { Str(sMoeLower), Str(sInferenceLower) }

KeywordLists == { List(l) : l \in UNION { [1..k -> KeywordPool] : k \in 0..MaxKeywords } }

DaysArgs == {0, 1, 2}

sId5 == <<"2","1","0","3",".","0","3","4","0","4">>

\* strings around the identifier pattern, and free text
QueryTypes ==
    { None, Str(<<>>), Str(sMoeLower), Str(MoeInference),
      Str(sId5),
      Str(<<"2","1","0","3",".","0","3","4","0">>),
      Str(<<"2","1","0",".","0","3","4","0","4">>),
      Str(<<"2","1","0","3",".","0","3","4">>),
      Str(<<"2","1","0","3","0","3","4","0","4">>),
      Str(sId5 \o <<"v","2">>),
      Str(sId5 \o <<"v">>),
      Str(sId5 \o <<"7">>),
      Str(sId5 \o <<" ","m","o","e">>),
      Str(<<"m","o","e"," ">> \o sId5) }

Fields == { None, Str(<<>>), Str(sField) }

Request(days, query_type, max_results, field, keywords) ==
    [days |-> days, query_type |-> query_type, max_results |-> max_results,
     field |-> field, keywords |-> keywords]

Keys == {"days", "query_type", "max_results", "field", "keywords"}

\* the argument bag with only the keys of K
Restrict(d, K) == [k \in K |-> d[k]]

TypeOK ==
    /\ pc \in {"start", "search_papers", "handle_call_tool"}
    /\ call.status \in {"not called", "returned", "raised"}
    /\ response.outcome \in {"none", "return", "raise"}

\* ranking: both modes, every keyword list, feeds of up to MaxFeed papers
Init ==
    /\ pc = "start"
    /\ name = "papersearch"
    /\ now = Now
    /\ feedOK = TRUE
    /\ \/ /\ arguments \in { Request(d, Str(sMoeLower), m, None, k) :
                               d \in DaysArgs, m \in 0..MaxResultsArg, k \in KeywordLists }
          /\ feed \in Feeds(MaxFeed)
       \/ /\ arguments \in { Request(d, Str(sId5), m, None, k) :
                               d \in DaysArgs, m \in 0..MaxResultsArg, k \in KeywordLists }
          /\ feed \in Feeds(1)
    /\ call = NotCalled
    /\ response = NoResponse

\* query building and mode selection: every query_type, field, keywords
InitQuery ==
    /\ pc = "start"
    /\ name = "papersearch"
    /\ now = Now
    /\ feedOK = TRUE
    /\ arguments \in { Request(d, q, m, f, k) :
                         d \in {0, 2}, m \in {0, 1},
                         q \in QueryTypes, f \in Fields, k \in KeywordLists \cup {None} }
    /\ feed \in Feeds(1)
    /\ call = NotCalled
    /\ response = NoResponse

ToolNames == {"papersearch", "summarize"}

ToolKeySets == { Keys, Keys \ {"keywords"}, {"query_type"}, {"keywords", "days"}, {} }

\* tool invocations: any tool name, argument bags with keys left out or null,
\* a retrieval capability that may fail
InitTool ==
    /\ pc = "start"
    /\ name \in ToolNames
    /\ now = Now
    /\ feedOK \in BOOLEAN
    /\ arguments \in
         {None} \cup
         { Restrict(Request(d, q, m, None, k), K) :
             d \in {1}, q \in {Str(sMoeLower), Str(sId5)}, m \in {1, 2},
             k \in {None, List(<<>>), List(<<Str(sMoeLower)>>)}, K \in ToolKeySets }
    /\ feed \in Feeds(2)
    /\ call = NotCalled
    /\ response = NoResponse

----------------------------------------------------------------------------
(* The operations *)

\* search_papers(**arguments), called on its own
SearchPapersCall ==
    /\ pc = "start"
    /\ pc' = "search_papers"
    /\ call' = RunSearch(arguments, now, feedOK, feed)
    /\ response' = NoResponse
    /\ UNCHANGED <<name, arguments, now, feedOK, feed>>

\* handle_call_tool(name, arguments)
HandleCallTool ==
    /\ pc = "start"
    /\ pc' = "handle_call_tool"
    /\ call' = IF name = "papersearch"
               THEN RunSearch(arguments, now, feedOK, feed)
               ELSE NotCalled
    /\ response' = ToolResponse(name, call')
    /\ UNCHANGED <<name, arguments, now, feedOK, feed>>

Next == SearchPapersCall \/ HandleCallTool

Spec == Init /\ [][Next]_vars

SpecQuery == InitQuery /\ [][Next]_vars

SpecTool == InitTool /\ [][Next]_vars

----------------------------------------------------------------------------
(* The properties *)

\* the parameters of the call under way
P == Param(EffectiveArguments(arguments))

SearchReturned == call.status = "returned" /\ call.mode = "search"

Urls(papers) == [i \in 1..Len(papers) |-> papers[i].url]

\* C1: in search mode with a non-empty keywords list the result is ordered by
\* relevance score descending: no earlier element has a strictly lower score
\* than a later one.
C1_ScoreDescending ==
    (SearchReturned /\ Truthy(P.keywords)) =>
        \A i, j \in 1..Len(call.result) :
            i < j => ~ScoreLess(call.result[i].relevance_score,
                                call.result[j].relevance_score)

\* C2: for max_results > 0 the result has at most max_results entries, in both
\* modes; in search mode it is the first min(max_results, n) entries of the
\* sorted list of the n retained papers, which holds the retained papers and
\* no others.
C2_Truncation ==
    (call.status = "returned" /\ P.max_results > 0) =>
        /\ Len(call.result) <= P.max_results
        /\ call.mode = "search" =>
             /\ Len(call.result) = Min(P.max_results, Len(call.papers))
             /\ Len(call.sorted) = Len(call.papers)
             /\ \A x \in Catalog :
                   Cardinality({i \in 1..Len(call.sorted) : call.sorted[i].url = x.url})
                   = Cardinality({i \in 1..Len(call.papers) : call.papers[i].url = x.url})
             /\ \A i \in 1..Len(call.result) : call.result[i] = call.sorted[i]

C2_Witness ==
    /\ SearchReturned
    /\ P.max_results = 1
    /\ Len(call.papers) = 3
    /\ Len(call.result) = 1

\* C3: in search mode a retrieved paper is retained iff the keywords list is
\* non-empty or its publication time is >= now - days; so with keywords every
\* paper is retained, and without, exactly those at or after the cutoff.
C3_Retention ==
    (SearchReturned /\ P.keywords.type = "list") =>
        LET Kept(paper) == \/ P.keywords.val # <<>>
                           \/ paper.published >= now - P.days * TicksPerDay
        IN /\ Urls(call.papers) = Urls(SelectSeq(feed, Kept))
           /\ P.keywords.val # <<>> => Urls(call.papers) = Urls(feed)

C3_Witness ==
    /\ SearchReturned
    /\ P.keywords = List(<<Str(sMoeLower)>>)
    /\ P.days = 1
    /\ Urls(feed) = <<"A", "B", "D">>
    /\ Urls(call.papers) = <<"A", "B", "D">>

\* query_type strings that are, as a whole, four digits, a dot, 4 to 5 digits
\* and an optional version suffix
FullIdentifiers ==
    { Str(sId5),
      Str(<<"2","1","0","3",".","0","3","4","0">>),
      Str(sId5 \o <<"v","2">>) }

\* C4: for an identifier query_type the call is an identifier lookup whose
\* outcome is decided by the retrieval capability alone: one record of the
\* yielded paper with relevance_score 1.0, or the empty list; no query
\* expression, no filter, no scoring, no sort.
C4_Lookup ==
    (call.status # "not called" /\ P.query_type \in FullIdentifiers /\ feedOK) =>
        /\ call.status = "returned"
        /\ call.mode = "lookup"
        /\ call.query = <<>> /\ call.papers = <<>> /\ call.sorted = <<>>
        /\ call.result =
             IF feed = <<>> THEN <<>>
             ELSE << [title |-> feed[1].title,
                      summary |-> feed[1].summary,
                      url |-> feed[1].url,
                      published_date |-> feed[1].published \div TicksPerDay,
                      relevance_score |-> [num |-> 1, den |-> 1]] >>

C4_Witness ==
    /\ call.status = "returned"
    /\ P.query_type = Str(sId5)
    /\ P.days = 0
    /\ P.max_results = 0
    /\ Truthy(P.field)
    /\ P.keywords = List(<<Str(sInferenceLower)>>)
    /\ Urls(feed) = <<"B">>
    /\ Urls(call.result) = <<"B">>

\* C5: identifier-lookup mode is selected exactly when query_type is, as a
\* whole, a syntactically valid identifier; every other string goes to
\* free-text search.
C5_WholeStringSelectsLookup ==
    call.status # "not called" =>
        (call.mode = "lookup" <=> P.query_type \in FullIdentifiers)

\* C6 (as stated): every invocation of handle_call_tool, for any tool name and
\* any argument bag, returns one text response; no exception propagates.
C6_AlwaysText ==
    pc = "handle_call_tool" =>
        /\ response.outcome = "return"
        /\ Len(response.content) = 1
        /\ response.content[1].type = "text"

\* C6 (amended): an invocation for the tool "papersearch", with any argument
\* bag, returns one text response, and every error of the call is turned into
\* a text behind the error marker; an invocation for any other tool name
\* raises ValueError.
C6_KnownToolAlwaysText ==
    pc = "handle_call_tool" =>
        IF name = "papersearch"
        THEN /\ response.outcome = "return"
             /\ Len(response.content) = 1
             /\ response.content[1].type = "text"
             /\ call.status = "raised" =>
                  /\ response.content[1].text.kind = "error"
                  /\ response.content[1].text.marker = ErrorMarker
             /\ call.status = "returned" => response.content[1].text.kind # "error"
        ELSE response = [outcome |-> "raise", exc |-> "ValueError"]

C6_Witness ==
    /\ pc = "handle_call_tool"
    /\ name = "papersearch"
    /\ ~feedOK
    /\ call.status = "raised"
    /\ response.outcome = "return"
    /\ response.content[1].text.kind = "error"

\* the reference value of the score: 1 without keywords, else
\* (2 * T + S) / (3 * |keywords|), T and S counted per list entry
ReferenceScore(record, keywords) ==
    IF ~Truthy(keywords) THEN [num |-> 1, den |-> 1]
    ELSE LET n == Len(keywords.val)
             T == Cardinality({i \in 1..n :
                     Contains(Lower(keywords.val[i].val), Lower(record.title))})
             S == Cardinality({i \in 1..n :
                     Contains(Lower(keywords.val[i].val), Lower(record.summary))})
         IN [num |-> 2 * T + S, den |-> 3 * n]

\* C7 (as stated): every paper returned by search_papers carries the reference
\* score.
C7_ScoreEverywhere ==
    call.status = "returned" =>
        \A i \in 1..Len(call.result) :
            ScoreEq(call.result[i].relevance_score,
                    ReferenceScore(call.result[i], P.keywords))

\* C7 (amended): every paper returned by search_papers in search mode carries
\* the reference score, which lies in [0,1]; for ["moe","inference"] the paper
\* with "moe" only in the title and "inference" only in the summary scores 3/6
\* and the paper with both words only in the title 4/6.  (In lookup mode the
\* score is 1.0 whatever the keywords.)
C7_SearchScore ==
    SearchReturned =>
        \A i \in 1..Len(call.result) :
            LET r == call.result[i]
            IN /\ ScoreEq(r.relevance_score, ReferenceScore(r, P.keywords))
               /\ 0 <= r.relevance_score.num
               /\ r.relevance_score.num <= r.relevance_score.den
               /\ ~Truthy(P.keywords) => r.relevance_score = [num |-> 1, den |-> 1]
               /\ P.keywords = List(<<Str(sMoeLower), Str(sInferenceLower)>>) =>
                    /\ r.url = "A" => ScoreEq(r.relevance_score, [num |-> 3, den |-> 6])
                    /\ r.url = "B" => ScoreEq(r.relevance_score, [num |-> 4, den |-> 6])

C7_Witness ==
    /\ SearchReturned
    /\ P.keywords = List(<<Str(sMoeLower), Str(sInferenceLower)>>)
    /\ \E i, j \in 1..Len(call.result) :
          /\ call.result[i].url = "A"
          /\ call.result[i].relevance_score = [num |-> 3, den |-> 6]
          /\ call.result[j].url = "B"
          /\ call.result[j].relevance_score = [num |-> 4, den |-> 6]

\* the clauses of the claim, each present or not; a query_type or field is
\* present when it is a non-empty string, keywords when a non-empty list
TopicClause ==
    IF P.query_type.type = "str" /\ Len(P.query_type.val) > 0
    THEN << IF P.query_type.val = sMoeInference THEN MoeExpression
            ELSE P.query_type.val >>
    ELSE <<>>

FieldClause ==
    IF P.field.type = "str" /\ Len(P.field.val) > 0
    THEN << <<"(cat:\"">> \o P.field.val \o <<"\")">> >>
    ELSE <<>>

RECURSIVE OrOfKeywords(_)
OrOfKeywords(kws) ==
    LET one == <<"(ti:\"">> \o kws[1].val \o <<"\" OR abs:\"">> \o kws[1].val \o <<"\")">>
    IN IF Len(kws) = 1 THEN one
       ELSE one \o <<" OR ">> \o OrOfKeywords(Tail(kws))

KeywordClause ==
    IF P.keywords.type = "list" /\ Len(P.keywords.val) > 0
    THEN << <<"(">> \o OrOfKeywords(P.keywords.val) \o <<")">> >>
    ELSE <<>>

RECURSIVE AndOf(_)
AndOf(clauses) ==
    IF Len(clauses) = 1 THEN clauses[1]
    ELSE clauses[1] \o <<" AND ">> \o AndOf(Tail(clauses))

\* C8: in search mode the query expression is the AND-join, in the order
\* topic, field, keywords, of exactly the clauses that are present, and the
\* match-everything expression iff none is.
C8_QueryExpression ==
    (call.status # "not called" /\ call.mode = "search") =>
        LET clauses == TopicClause \o FieldClause \o KeywordClause
        IN /\ clauses # <<>> => call.query = AndOf(clauses)
           /\ call.query = <<"*:*">> <=> clauses = <<>>

C8_Witness ==
    /\ call.status = "returned"
    /\ call.mode = "search"
    /\ P.query_type = Str(sMoeInference)
    /\ P.field = Str(sField)
    /\ P.keywords = List(<<Str(sMoeLower), Str(sInferenceLower)>>)
    /\ call.query =
         MoeExpression \o <<" AND ", "(cat:\"", "c", "s", ".", "A", "I", "\")", " AND ", "(",
           "(ti:\"", "m", "o", "e", "\" OR abs:\"", "m", "o", "e", "\")", " OR ",
           "(ti:\"", "i", "n", "f", "e", "r", "e", "n", "c", "e", "\" OR abs:\"",
           "i", "n", "f", "e", "r", "e", "n", "c", "e", "\")", ")">>

\* the papers of the feed inside the recency window, as the formatter is
\* given them by a search without keywords
RECURSIVE Windowed(_)
Windowed(results) ==
    IF results = <<>> THEN <<>>
    ELSE (IF Head(results).published >= now - P.days * TicksPerDay
          THEN <<Head(results).url>> ELSE <<>>) \o Windowed(Tail(results))

\* C9: a tool invocation that omits keywords or passes null is a search with
\* an empty keywords list: when the retrieval capability succeeds the
\* response is the rendered list of the papers inside the recency window, or
\* the no-results sentinel, never an error message.
C9_NullKeywordsIsEmptyList ==
    (/\ pc = "handle_call_tool"
     /\ name = "papersearch"
     /\ P.keywords = None
     /\ call.mode = "search"
     /\ feedOK) =>
        /\ response.outcome = "return"
        /\ response.content[1].text.kind # "error"
        /\ IF Windowed(feed) = <<>>
           THEN response.content[1].text.kind = "sentinel"
           ELSE /\ response.content[1].text.kind = "papers"
                /\ {response.content[1].text.blocks[i].url :
                      i \in DOMAIN response.content[1].text.blocks}
                   = {Windowed(feed)[i] : i \in DOMAIN Windowed(feed)}

\* C10: among returned papers with equal relevance score the order is by
\* publication date descending; a search without keywords, where every score
\* is 1.0, is returned newest first.
C10_TiesNewestFirst ==
    SearchReturned =>
        \A i, j \in 1..Len(call.result) :
            (i < j /\ ScoreEq(call.result[i].relevance_score,
                              call.result[j].relevance_score))
                => call.result[i].published_date >= call.result[j].published_date

C10_Witness ==
    /\ SearchReturned
    /\ P.keywords = List(<<>>)
    /\ Urls(feed) = <<"D", "A">>
    /\ Urls(call.result) = <<"A", "D">>
    /\ call.result[1].published_date > call.result[2].published_date

====
